---- MODULE Spec2Model ----
(***************************************************************************)
(* Model of two kernel subsystems of thor-os:                              *)
(*   - the RTL8139 receive path (init_driver and packet_handler),          *)
(*   - the ELF loader of the shell (allocate_segments,                     *)
(*     allocate_user_stack, release_segments, exec and execin).            *)
(* Each subsystem has its own specification (SpecNic, SpecLoader); the     *)
(* variables of the other subsystem stay at their initial value.           *)
(***************************************************************************)
EXTENDS Integers, Sequences, FiniteSets, TLC

VARIABLES
    \* ---- NIC driver -------------------------------------------------
    initPc,        \* position inside rtl8139::init_driver
    desc,          \* rtl8139_t: phys_buffer_rx, buffer_rx, cur_rx
    ringMapped,    \* result of paging::map_pages for the receive buffer
    ringFill,      \* "garbage" before std::fill_n, "zero" after
    ring,          \* words written into the buffer since the fill (offset -> 32-bit word)
    isr,           \* interrupt status register (ISR)
    imr,           \* interrupt mask register (IMR)
    rxEnabled,     \* RE bit of the command register
    rxBufPtr,      \* 16-bit read-pointer register (RX_BUF_PTR)
    irqHandler,    \* TRUE once packet_handler is registered
    wrCursor,      \* device: logical position of the next frame it writes
    devRd,         \* device: logical position the driver has released
    pending,       \* device: frames written and not yet released
    nFrames,       \* device: frames written so far
    written,       \* device: the frames written so far, in order
    hpc,           \* position inside packet_handler
    status,        \* packet_handler: local 'status', the value last read from ISR
    cur_rx,        \* packet_handler: local 'cur_rx'
    lastIter,      \* record of the last drain iteration
    decoded,       \* number of calls of network::ethernet::decode
    \* ---- loader -----------------------------------------------------
    lpc,           \* position inside exec_command / execin_command
    cmd,           \* "exec" or "execin"
    content,       \* "empty", "invalid" or "valid" (read_elf_file)
    image,         \* program header table of the image
    pageTable,     \* virtual page number -> physical frame address
    heap,          \* live k_malloc blocks: base address -> size
    nAlloc,        \* number of k_malloc calls that returned a block
    handles,       \* allocated_segments array
    p,             \* loop index of allocate_segments / release_segments
    failed,        \* allocate_segments: 'failed'
    memory,        \* allocate_segments / allocate_user_stack: 'memory'
    stackHandle,   \* exec_command: 'stack_physical'
    copies,        \* std::copy_n / std::fill_n calls made by the loader
    freeCalls,     \* k_free calls: address -> count
    unmapCalls,    \* paging::unmap_pages calls: segment index -> count
    unmapFailed,   \* segment indexes whose unmap_pages returned false
    mine,          \* blocks allocated by this load attempt
    created,       \* page mappings created by this load attempt: page number -> segment index, 0 for the stack
    entered,       \* TRUE once control was handed to the entry point
    relRound       \* number of release_segments calls started

nicVars == <<initPc, desc, ringMapped, ringFill, ring, isr, imr, rxEnabled,
             rxBufPtr, irqHandler, wrCursor, devRd, pending, nFrames, written,
             hpc, status, cur_rx, lastIter, decoded>>

loaderVars == <<lpc, cmd, content, image, pageTable, heap, nAlloc, handles, p,
                failed, memory, stackHandle, copies, freeCalls, unmapCalls,
                unmapFailed, mine, created, entered, relRound>>

vars == <<nicVars, loaderVars>>

-----------------------------------------------------------------------------
\* Bounds of the model

MaxFrames == 2
MaxSegs == 2

-----------------------------------------------------------------------------
\* Program constants

RX_OK == 1
CMD_NOT_EMPTY == 1
RX_STATUS_OK == 1
RX_BAD_ALIGN == 2
RX_CRC_ERR == 4
RX_TOO_LONG == 8
RX_RUNT == 16
RX_BAD_SYMBOL == 32
TX_OK == 4
IMR_ROK_TOK == 5
Capacity == 12288
PtrBias == 16
HeaderSize == 4
Word16 == 65536
RingPhys == 1048576
RingVirt == 2097152

-----------------------------------------------------------------------------
\* Integer helpers for the C operators

RECURSIVE BitAnd(_, _)
BitAnd(a, b) ==
    IF a = 0 \/ b = 0 THEN 0
    ELSE (a % 2) * (b % 2) + 2 * BitAnd(a \div 2, b \div 2)

RECURSIVE BitOr(_, _)
BitOr(a, b) ==
    IF a = 0 THEN b
    ELSE IF b = 0 THEN a
    ELSE (IF a % 2 = 1 \/ b % 2 = 1 THEN 1 ELSE 0) + 2 * BitOr(a \div 2, b \div 2)

\* the alignment mask left out
AlignDown4Off(x) == x

\* x & ~3
AlignDown4(x) == x - (x % 4)

\* the rounding term + 3 left out
AdvanceNoRound(cur, len) == AlignDown4(cur + len + 4)

\* (cur + packet_length + 4 + 3) & ~3
Advance(cur, len) == AlignDown4(cur + len + 4 + 3)

\* the raw cursor used as offset
RingOffsetRaw(cur) == cur

\* cur_rx % 0x3000
RingOffset(cur) == cur % Capacity

\* A 32-bit value is kept as two 16-bit halves, [lo, hi]
Word(lo, hi) == [lo |-> lo, hi |-> hi]

\* packet_status >> 16
PacketLength(hdr) == hdr.hi

\* the low 16 bits of the header
PacketStatus(hdr) == hdr.lo

\* the CRC-error bit left out of the mask
ErrorMaskNoCrc ==
    BitOr(RX_BAD_SYMBOL, BitOr(RX_RUNT, BitOr(RX_TOO_LONG, RX_BAD_ALIGN)))

\* RX_BAD_SYMBOL | RX_RUNT | RX_TOO_LONG | RX_CRC_ERR | RX_BAD_ALIGN
ErrorMask ==
    BitOr(RX_BAD_SYMBOL, BitOr(RX_RUNT, BitOr(RX_TOO_LONG, BitOr(RX_CRC_ERR, RX_BAD_ALIGN))))

\* packet_status & (error bits)
HasError(hdr) == BitAnd(PacketStatus(hdr), ErrorMask) # 0

\* packet_length - 4 on uint32_t: the subtraction with its borrow
PacketOnlyLength(len) ==
    Word((len + Word16 - 4) % Word16, IF len < 4 THEN Word16 - 1 ELSE 0)

\* out_word(desc.iobase + RX_BUF_PTR, cur_rx - 0x10): the low 16 bits
ReadPtrValue(cur) == (cur + Word16 - PtrBias) % Word16

\* the word of the receive buffer at a byte offset (4-aligned)
ReadWord(mem, fill, off) ==
    IF off \in DOMAIN mem THEN mem[off]
    ELSE IF fill = "zero" THEN Word(0, 0) ELSE Word(43690, 43690)

\* the byte of the receive buffer at a byte offset (4-aligned)
ReadByte(mem, fill, off) == ReadWord(mem, fill, off).lo % 256

Put(f, k, v) == [x \in DOMAIN f \cup {k} |-> IF x = k THEN v ELSE f[x]]

-----------------------------------------------------------------------------
\* Frames the device may deliver

FrameLengths == {0, 3, 4, 64, 12280, 12284}

FrameStatus == {RX_STATUS_OK, RX_CRC_ERR,
                RX_RUNT + RX_BAD_ALIGN + RX_BAD_SYMBOL + RX_TOO_LONG}

\* first payload byte of the n-th frame the device writes
PayloadByte(n) == 161 + n

\* values a read past the end of the 3-page buffer may return
StrayBytes == {0, 255}

NoIter == [n |-> 0, cursor |-> 0, offset |-> 0, header |-> Word(0, 0), forwarded |-> FALSE,
           fwdLen |-> Word(0, 0), fwdFirst |-> -1, newCursor |-> 0, ptr |-> 0,
           ringByte |-> -1]

NoDesc == [phys_buffer_rx |-> 0, buffer_rx |-> 0, cur_rx |-> 0]

-----------------------------------------------------------------------------
\* Loader variables while no command runs

LoaderIdle ==
    /\ lpc = "none"
    /\ cmd = "none"
    /\ content = "none"
    /\ image = <<>>
    /\ pageTable = <<>>
    /\ heap = <<>>
    /\ nAlloc = 0
    /\ handles = <<>>
    /\ p = 0
    /\ failed = FALSE
    /\ memory = 0
    /\ stackHandle = 0
    /\ copies = <<>>
    /\ freeCalls = <<>>
    /\ unmapCalls = <<>>
    /\ unmapFailed = {}
    /\ mine = {}
    /\ created = <<>>
    /\ entered = FALSE
    /\ relRound = 0

-----------------------------------------------------------------------------
\* NIC: the state when rtl8139::init_driver is entered

NicReset ==
    /\ initPc = "start"
    /\ desc = NoDesc
    /\ ringMapped = FALSE
    /\ ringFill = "garbage"
    /\ ring = <<>>
    /\ isr = 0
    /\ imr = 0
    /\ rxEnabled = FALSE
    /\ rxBufPtr = 65520
    /\ irqHandler = FALSE
    /\ wrCursor = 0
    /\ devRd = 0
    /\ pending = 0
    /\ nFrames = 0
    /\ written = <<>>
    /\ hpc = "idle"
    /\ status = 0
    /\ cur_rx = 0
    /\ lastIter = NoIter
    /\ decoded = 0

\* the command register as in_byte(iobase + CMD) returns it
CmdReg == (IF pending = 0 THEN CMD_NOT_EMPTY ELSE 0) + (IF rxEnabled THEN 12 ELSE 0)

\* the cursor the driver currently works with
CurrentCursor == IF hpc = "loop" THEN cur_rx ELSE desc.cur_rx

-----------------------------------------------------------------------------
\* rtl8139::init_driver, in program order

\* new rtl8139_t(), bus mastering, I/O base, power on, software reset
InitReset ==
    /\ initPc = "start"
    /\ desc' = NoDesc
    /\ initPc' = "rxbuf"
    /\ UNCHANGED <<ringMapped, ringFill, ring, isr, imr, rxEnabled, rxBufPtr,
                   irqHandler, wrCursor, devRd, pending, nFrames, written, hpc, status,
                   cur_rx, lastIter, decoded>>

\* physical_allocator::allocate(3); RX_BUF, RX_BUF_PTR and RX_BUF_ADDR
InitRxBuf ==
    /\ initPc = "rxbuf"
    /\ rxBufPtr' = 0
    /\ initPc' = "map"
    /\ UNCHANGED <<desc, ringMapped, ringFill, ring, isr, imr, rxEnabled,
                   irqHandler, wrCursor, devRd, pending, nFrames, written, hpc, status,
                   cur_rx, lastIter, decoded>>

\* virtual_allocator::allocate(3); paging::map_pages, whose failure is only logged
InitMap ==
    /\ initPc = "map"
    /\ \E ok \in BOOLEAN : ringMapped' = ok
    /\ initPc' = "desc"
    /\ UNCHANGED <<desc, ringFill, ring, isr, imr, rxEnabled, rxBufPtr,
                   irqHandler, wrCursor, devRd, pending, nFrames, written, hpc, status,
                   cur_rx, lastIter, decoded>>

\* desc->phys_buffer_rx, desc->buffer_rx, desc->cur_rx = 0
InitDesc ==
    /\ initPc = "desc"
    /\ desc' = [phys_buffer_rx |-> RingPhys, buffer_rx |-> RingVirt, cur_rx |-> 0]
    /\ initPc' = "fill"
    /\ UNCHANGED <<ringMapped, ringFill, ring, isr, imr, rxEnabled, rxBufPtr,
                   irqHandler, wrCursor, devRd, pending, nFrames, written, hpc, status,
                   cur_rx, lastIter, decoded>>

\* the ring is left as allocated
InitFillSkipped ==
    /\ initPc = "fill"
    /\ initPc' = (IF ringMapped THEN "irq" ELSE "fault")
    /\ UNCHANGED <<desc, ringMapped, ringFill, ring, isr, imr, rxEnabled, rxBufPtr,
                   irqHandler, wrCursor, devRd, pending, nFrames, written, hpc, status,
                   cur_rx, lastIter, decoded>>

\* std::fill_n(buffer_rx, 0x3000, 0); the write faults when the range is not mapped
InitFill ==
    /\ initPc = "fill"
    /\ IF ringMapped
       THEN /\ ringFill' = "zero"
            /\ ring' = <<>>
            /\ initPc' = "irq"
       ELSE /\ initPc' = "fault"
            /\ UNCHANGED <<ringFill, ring>>
    /\ UNCHANGED <<desc, ringMapped, isr, imr, rxEnabled, rxBufPtr,
                   irqHandler, wrCursor, devRd, pending, nFrames, written, hpc, status,
                   cur_rx, lastIter, decoded>>

\* interrupt::register_irq_handler(irq, packet_handler, desc)
InitIrq ==
    /\ initPc = "irq"
    /\ irqHandler' = TRUE
    /\ initPc' = "imr"
    /\ UNCHANGED <<desc, ringMapped, ringFill, ring, isr, imr, rxEnabled, rxBufPtr,
                   wrCursor, devRd, pending, nFrames, written, hpc, status,
                   cur_rx, lastIter, decoded>>

\* out_word(iobase + IMR, 0x0005)
InitImr ==
    /\ initPc = "imr"
    /\ imr' = IMR_ROK_TOK
    /\ initPc' = "enable"
    /\ UNCHANGED <<desc, ringMapped, ringFill, ring, isr, rxEnabled, rxBufPtr,
                   irqHandler, wrCursor, devRd, pending, nFrames, written, hpc, status,
                   cur_rx, lastIter, decoded>>

\* RCR, RX_MISSED, then out_byte(iobase + CMD, 0x0C)
InitEnable ==
    /\ initPc = "enable"
    /\ rxEnabled' = TRUE
    /\ initPc' = "mac"
    /\ UNCHANGED <<desc, ringMapped, ringFill, ring, isr, imr, rxBufPtr,
                   irqHandler, wrCursor, devRd, pending, nFrames, written, hpc, status,
                   cur_rx, lastIter, decoded>>

\* the six MAC bytes are read and stored on the interface
InitMac ==
    /\ initPc = "mac"
    /\ initPc' = "done"
    /\ UNCHANGED <<desc, ringMapped, ringFill, ring, isr, imr, rxEnabled, rxBufPtr,
                   irqHandler, wrCursor, devRd, pending, nFrames, written, hpc, status,
                   cur_rx, lastIter, decoded>>

-----------------------------------------------------------------------------
\* The device

\* the device stores one frame (header, then payload) at its write position
\* and raises receive-OK; it never overwrites frames the driver has not released
DeviceReceive ==
    /\ rxEnabled
    /\ nFrames < MaxFrames
    /\ \E len \in FrameLengths, st \in FrameStatus :
        LET off == wrCursor % Capacity
            hdr == Word(st, len)
            withHdr == Put(ring, off, hdr)
            end == ((wrCursor + len + HeaderSize + 3) \div 4) * 4
        IN  /\ end - devRd <= Capacity
            /\ ring' = IF len > 0 /\ off + HeaderSize < Capacity
                       THEN Put(withHdr, off + HeaderSize, Word(PayloadByte(nFrames + 1), 0))
                       ELSE withHdr
            /\ wrCursor' = end
            /\ written' = Append(written, [off |-> off, hdr |-> hdr,
                                           byte |-> PayloadByte(nFrames + 1)])
    /\ pending' = pending + 1
    /\ nFrames' = nFrames + 1
    /\ isr' = BitOr(isr, RX_OK)
    /\ UNCHANGED <<initPc, desc, ringMapped, ringFill, imr, rxEnabled, rxBufPtr,
                   irqHandler, devRd, hpc, status, cur_rx, lastIter, decoded>>

\* the device signals transmit-OK
DeviceTxOk ==
    /\ rxEnabled
    /\ isr' = BitOr(isr, TX_OK)
    /\ isr' # isr
    /\ UNCHANGED <<initPc, desc, ringMapped, ringFill, ring, imr, rxEnabled, rxBufPtr,
                   irqHandler, wrCursor, devRd, pending, nFrames, written, hpc, status,
                   cur_rx, lastIter, decoded>>

-----------------------------------------------------------------------------
\* packet_handler

\* the interrupt is delivered: status = in_word(iobase + ISR)
HReadIsr ==
    /\ hpc = "idle"
    /\ irqHandler
    /\ BitAnd(isr, imr) # 0
    /\ status' = isr
    /\ hpc' = "ack"
    /\ UNCHANGED <<initPc, desc, ringMapped, ringFill, ring, isr, imr, rxEnabled,
                   rxBufPtr, irqHandler, wrCursor, devRd, pending, nFrames, written,
                   cur_rx, lastIter, decoded>>

\* the write clears every bit of ISR
AckIsrClearsAll(isrv, st) == 0

\* out_word(iobase + ISR, status): the bits written as 1 are cleared
AckIsr(isrv, st) == isrv - BitAnd(isrv, st)

\* any signaled condition taken for receive-OK
ReceiveOkAny(st) == st # 0

\* status & RX_OK
ReceiveOk(st) == BitAnd(st, RX_OK) # 0

\* out_word(iobase + ISR, status), then the test of RX_OK and cur_rx = desc.cur_rx
HAck ==
    /\ hpc = "ack"
    /\ isr' = AckIsr(isr, status)
    /\ IF ReceiveOk(status)
       THEN /\ cur_rx' = desc.cur_rx
            /\ hpc' = "loop"
            /\ UNCHANGED status
       ELSE /\ hpc' = "idle"
            /\ UNCHANGED <<status, cur_rx>>
    /\ UNCHANGED <<initPc, desc, ringMapped, ringFill, ring, imr, rxEnabled,
                   rxBufPtr, irqHandler, wrCursor, devRd, pending, nFrames, written,
                   lastIter, decoded>>

\* the loop test the wrong way round
RingEmptyInverted(cmdreg) == BitAnd(cmdreg, CMD_NOT_EMPTY) = 0

\* the loop test: (in_byte(iobase + CMD) & CMD_NOT_EMPTY) == 0 is false
RingEmpty(cmdreg) == BitAnd(cmdreg, CMD_NOT_EMPTY) # 0

\* one iteration of the while loop
HDrain ==
    /\ hpc = "loop"
    /\ ~RingEmpty(CmdReg)
    /\ LET cur_offset == RingOffset(cur_rx)
           packet_status == ReadWord(ring, ringFill, cur_offset)
           packet_length == PacketLength(packet_status)
           payload == cur_offset + HeaderSize
           valid == ~HasError(packet_status) /\ packet_length # 0
           packet_only_length == PacketOnlyLength(packet_length)
           next == Advance(cur_rx, packet_length)
       IN  /\ \E b \in (IF payload < Capacity
                        THEN {ReadByte(ring, ringFill, payload)}
                        ELSE StrayBytes) :
                lastIter' = [n |-> lastIter.n + 1,
                             cursor |-> cur_rx,
                             offset |-> cur_offset,
                             header |-> packet_status,
                             forwarded |-> valid,
                             fwdLen |-> IF valid THEN packet_only_length ELSE Word(0, 0),
                             fwdFirst |-> IF valid /\ packet_only_length # Word(0, 0) THEN b ELSE -1,
                             newCursor |-> next,
                             ptr |-> ReadPtrValue(next),
                             ringByte |-> IF payload < Capacity
                                          THEN ReadByte(ring, ringFill, payload)
                                          ELSE -1]
           /\ decoded' = IF valid THEN decoded + 1 ELSE decoded
           /\ cur_rx' = next
           /\ rxBufPtr' = ReadPtrValue(next)
           /\ devRd' = next
    /\ pending' = pending - 1
    /\ UNCHANGED <<initPc, desc, ringMapped, ringFill, ring, isr, imr, rxEnabled,
                   irqHandler, wrCursor, nFrames, written, hpc, status>>

\* the handler returns without storing its cursor in the descriptor
HExitNoPersist ==
    /\ hpc = "loop"
    /\ RingEmpty(CmdReg)
    /\ hpc' = "idle"
    /\ cur_rx' = 0
    /\ UNCHANGED <<initPc, desc, ringMapped, ringFill, ring, isr, imr, rxEnabled,
                   rxBufPtr, irqHandler, wrCursor, devRd, pending, nFrames, written,
                   status, lastIter, decoded>>

\* the loop ends: desc.cur_rx = cur_rx, and the handler returns
HExit ==
    /\ hpc = "loop"
    /\ RingEmpty(CmdReg)
    /\ desc' = [desc EXCEPT !.cur_rx = cur_rx]
    /\ hpc' = "idle"
    /\ cur_rx' = 0
    /\ UNCHANGED status
    /\ UNCHANGED <<initPc, ringMapped, ringFill, ring, isr, imr, rxEnabled,
                   rxBufPtr, irqHandler, wrCursor, devRd, pending, nFrames, written,
                   lastIter, decoded>>

NextNic ==
    \/ (InitReset /\ UNCHANGED loaderVars)
    \/ (InitRxBuf /\ UNCHANGED loaderVars)
    \/ (InitMap /\ UNCHANGED loaderVars)
    \/ (InitDesc /\ UNCHANGED loaderVars)
    \/ (InitFill /\ UNCHANGED loaderVars)
    \/ (InitIrq /\ UNCHANGED loaderVars)
    \/ (InitImr /\ UNCHANGED loaderVars)
    \/ (InitEnable /\ UNCHANGED loaderVars)
    \/ (InitMac /\ UNCHANGED loaderVars)
    \/ (DeviceReceive /\ UNCHANGED loaderVars)
    \/ (DeviceTxOk /\ UNCHANGED loaderVars)
    \/ (HReadIsr /\ UNCHANGED loaderVars)
    \/ (HAck /\ UNCHANGED loaderVars)
    \/ (HDrain /\ UNCHANGED loaderVars)
    \/ (HExit /\ UNCHANGED loaderVars)

InitDriver == NicReset /\ LoaderIdle

SpecNic == InitDriver /\ [][NextNic]_vars

\* The same driver with a device that delivers frames of 64 bytes or empty
\* ones, good or with a CRC error, and fairness: the processor goes on with
\* a handler that has started, and an interrupt that stays requested is
\* delivered.

PlainHeaders == {Word(st, len) : st \in {RX_STATUS_OK, RX_CRC_ERR}, len \in {0, 64}}

DeviceReceivePlain ==
    /\ DeviceReceive
    /\ written'[Len(written')].hdr \in PlainHeaders

NextNicFair ==
    \/ (InitReset /\ UNCHANGED loaderVars)
    \/ (InitRxBuf /\ UNCHANGED loaderVars)
    \/ (InitMap /\ UNCHANGED loaderVars)
    \/ (InitDesc /\ UNCHANGED loaderVars)
    \/ (InitFill /\ UNCHANGED loaderVars)
    \/ (InitIrq /\ UNCHANGED loaderVars)
    \/ (InitImr /\ UNCHANGED loaderVars)
    \/ (InitEnable /\ UNCHANGED loaderVars)
    \/ (InitMac /\ UNCHANGED loaderVars)
    \/ (DeviceReceivePlain /\ UNCHANGED loaderVars)
    \/ (DeviceTxOk /\ UNCHANGED loaderVars)
    \/ (HReadIsr /\ UNCHANGED loaderVars)
    \/ (HAck /\ UNCHANGED loaderVars)
    \/ (HDrain /\ UNCHANGED loaderVars)
    \/ (HExit /\ UNCHANGED loaderVars)

HandlerStep == (HAck \/ HDrain \/ HExit) /\ UNCHANGED loaderVars

InterruptDelivered == HReadIsr /\ UNCHANGED loaderVars

SpecNicFair ==
    InitDriver /\ [][NextNicFair]_vars /\ WF_vars(HandlerStep) /\ WF_vars(InterruptDelivered)

-----------------------------------------------------------------------------
\* NIC: the driver after a long run. Frames for TrafficSoFar bytes of the ring
\* were received and all of them drained; the cursor is never reduced, so
\* desc.cur_rx has that value. The history variables restart from here and
\* the old contents of the ring are not tracked.

TrafficSoFar == 5 * Capacity

NicAfterTraffic ==
    /\ initPc = "done"
    /\ desc = [phys_buffer_rx |-> RingPhys, buffer_rx |-> RingVirt, cur_rx |-> TrafficSoFar]
    /\ ringMapped = TRUE
    /\ ringFill = "garbage"
    /\ ring = <<>>
    /\ isr = 0
    /\ imr = IMR_ROK_TOK
    /\ rxEnabled = TRUE
    /\ rxBufPtr = ReadPtrValue(TrafficSoFar)
    /\ irqHandler = TRUE
    /\ wrCursor = TrafficSoFar
    /\ devRd = TrafficSoFar
    /\ pending = 0
    /\ nFrames = 0
    /\ written = <<>>
    /\ hpc = "idle"
    /\ status = 0
    /\ cur_rx = 0
    /\ lastIter = NoIter
    /\ decoded = 0

NextRunning ==
    \/ (DeviceReceive /\ UNCHANGED loaderVars)
    \/ (DeviceTxOk /\ UNCHANGED loaderVars)
    \/ (HReadIsr /\ UNCHANGED loaderVars)
    \/ (HAck /\ UNCHANGED loaderVars)
    \/ (HDrain /\ UNCHANGED loaderVars)
    \/ (HExit /\ UNCHANGED loaderVars)

InitRunning == NicAfterTraffic /\ LoaderIdle

SpecRunning == InitRunning /\ [][NextRunning]_vars

-----------------------------------------------------------------------------
\* Loader: constants and address arithmetic

PAGE_SIZE == 4096
PT_LOAD == 1
PT_NOTE == 4
STACK_ADDRESS == 5242880
HeapBase == 8388608
BlockStride == 65536
Misalign == 16
ForeignFrame == 1048576
WildPointer == 7340048
Uninit == -1

\* paging::page_align
PageAlign(a) == a - (a % PAGE_SIZE)

\* paging::page_aligned
PageAligned(a) == a % PAGE_SIZE = 0

\* address - first_page
LeftPadding(a) == a - PageAlign(a)

\* left_padding + paging::PAGE_SIZE + size
TotalBytes(a, size) == LeftPadding(a) + PAGE_SIZE + size

\* (bytes / paging::PAGE_SIZE) + 1
PageCount(a, size) == (TotalBytes(a, size) \div PAGE_SIZE) + 1

\* the page numbers first_page + i * PAGE_SIZE, i < pages
PageRange(a, size) ==
    {(PageAlign(a) \div PAGE_SIZE) + i : i \in 0 .. (PageCount(a, size) - 1)}

\* paging::page_present for one of the pages of the range
AnyPresent(table, a, size) == PageRange(a, size) \cap DOMAIN table # {}

\* page_aligned(memory) ? memory : (memory / PAGE_SIZE + 1) * PAGE_SIZE
AlignedMemory(mem) ==
    IF PageAligned(mem) THEN mem ELSE ((mem \div PAGE_SIZE) + 1) * PAGE_SIZE

\* paging::map_pages when it succeeds
MapPages(table, a, size, phys) ==
    [pg \in DOMAIN table \cup PageRange(a, size) |->
        IF pg \in PageRange(a, size)
        THEN phys + (pg - (PageAlign(a) \div PAGE_SIZE)) * PAGE_SIZE
        ELSE table[pg]]

\* paging::unmap_pages when it succeeds
UnmapPages(table, a, size) ==
    [pg \in DOMAIN table \ PageRange(a, size) |-> table[pg]]

\* the left padding left out
MemoryStartNoPadding(aligned, a) == aligned

\* memory_start = aligned_memory + left_padding
MemoryStart(aligned, a) == aligned + LeftPadding(a)

\* k_malloc when it returns a block: the n-th block, aligned or not
BlockBase(n, delta) == HeapBase + n * BlockStride + delta

\* k_free
Free(h, a) == [b \in DOMAIN h \ {a} |-> h[b]]

Count(f, k) == IF k \in DOMAIN f THEN f[k] ELSE 0

-----------------------------------------------------------------------------
\* Images and the initial state of a command

ProgramHeaders ==
    { [p_type |-> PT_LOAD, p_vaddr |-> 4194304, p_memsz |-> 16,
       p_offset |-> 4096, p_filesz |-> 16],
      [p_type |-> PT_LOAD, p_vaddr |-> 4194320, p_memsz |-> 4096,
       p_offset |-> 8192, p_filesz |-> 16],
      [p_type |-> PT_LOAD, p_vaddr |-> 4202512, p_memsz |-> 16,
       p_offset |-> 12288, p_filesz |-> 16],
      [p_type |-> PT_NOTE, p_vaddr |-> 4202496, p_memsz |-> 16,
       p_offset |-> 64, p_filesz |-> 16] }

Images == UNION {[1 .. n -> ProgramHeaders] : n \in 0 .. MaxSegs}

\* pages that other code has mapped before the command runs
Premapped == { <<>>, [pg \in {1026} |-> ForeignFrame], [pg \in {1281} |-> ForeignFrame] }

LoaderStart ==
    /\ lpc = "start"
    /\ cmd \in {"exec", "execin"}
    /\ content \in {"empty", "invalid", "valid"}
    /\ image \in (IF content = "valid" THEN Images ELSE {<<>>})
    /\ pageTable \in Premapped
    /\ heap = <<>>
    /\ nAlloc = 0
    /\ handles = <<>>
    /\ p = 0
    /\ failed = FALSE
    /\ memory = 0
    /\ stackHandle = 0
    /\ copies = <<>>
    /\ freeCalls = <<>>
    /\ unmapCalls = <<>>
    /\ unmapFailed = {}
    /\ mine = {}
    /\ created = <<>>
    /\ entered = FALSE
    /\ relRound = 0

-----------------------------------------------------------------------------
\* read_elf_file and the handle array

\* only the test for an empty file is made
ElfAcceptedNonEmpty(c) == c # "empty"

\* read_elf_file returns the content: it is not empty and elf::is_valid holds
ElfAccepted(c) == c = "valid"

\* content.empty() or !elf::is_valid(content): the command returns
ReadElfRejects ==
    /\ lpc = "start"
    /\ ~ElfAccepted(content)
    /\ lpc' = "done"
    /\ UNCHANGED <<cmd, content, image, pageTable, heap, nAlloc, handles, p,
                   failed, memory, stackHandle, copies, freeCalls, unmapCalls,
                   unmapFailed, mine, created, entered, relRound>>

\* the image is accepted; std::unique_heap_array<void*>(e_phnum) is not initialized
AllocateArray ==
    /\ lpc = "start"
    /\ ElfAccepted(content)
    /\ handles' = [i \in 1 .. Len(image) |-> Uninit]
    /\ p' = 1
    /\ failed' = FALSE
    /\ lpc' = "seg"
    /\ UNCHANGED <<cmd, content, image, pageTable, heap, nAlloc,
                   memory, stackHandle, copies, freeCalls, unmapCalls,
                   unmapFailed, mine, created, entered, relRound>>

-----------------------------------------------------------------------------
\* allocate_segments

\* allocated_segments[p] = nullptr; the test of p_type; the scan with page_present
SegBegin ==
    /\ lpc = "seg"
    /\ p <= Len(image)
    /\ handles' = [handles EXCEPT ![p] = 0]
    /\ IF image[p].p_type # PT_LOAD
       THEN /\ p' = p + 1
            /\ UNCHANGED <<lpc, failed>>
       ELSE IF AnyPresent(pageTable, image[p].p_vaddr, image[p].p_memsz)
            THEN /\ failed' = TRUE
                 /\ lpc' = "allocated"
                 /\ UNCHANGED p
            ELSE /\ lpc' = "seg_malloc"
                 /\ UNCHANGED <<p, failed>>
    /\ UNCHANGED <<cmd, content, image, pageTable, heap, nAlloc,
                   memory, stackHandle, copies, freeCalls, unmapCalls,
                   unmapFailed, mine, created, entered, relRound>>

\* memory = k_malloc(bytes); on success allocated_segments[p] = memory
SegMalloc ==
    /\ lpc = "seg_malloc"
    /\ \/ /\ memory' = 0
          /\ failed' = TRUE
          /\ lpc' = "allocated"
          /\ UNCHANGED <<heap, nAlloc, handles, mine>>
       \/ \E delta \in {0, Misalign} :
            LET base == BlockBase(nAlloc, delta)
            IN  /\ memory' = base
                /\ heap' = Put(heap, base, TotalBytes(image[p].p_vaddr, image[p].p_memsz))
                /\ nAlloc' = nAlloc + 1
                /\ mine' = mine \cup {base}
                /\ handles' = [handles EXCEPT ![p] = base]
                /\ lpc' = "seg_map"
                /\ UNCHANGED failed
    /\ UNCHANGED <<cmd, content, image, pageTable, p, stackHandle, copies,
                   freeCalls, unmapCalls, unmapFailed, created, entered, relRound>>

\* paging::map_pages(first_page, aligned_memory, pages, flags), then std::copy_n
SegMap ==
    /\ lpc = "seg_map"
    /\ \/ /\ failed' = TRUE
          /\ lpc' = "allocated"
          /\ UNCHANGED <<pageTable, created, copies, p>>
       \/ LET h == image[p]
              aligned_memory == AlignedMemory(memory)
          IN  /\ pageTable' = MapPages(pageTable, h.p_vaddr, h.p_memsz, aligned_memory)
              /\ created' = [pg \in DOMAIN created \cup PageRange(h.p_vaddr, h.p_memsz) |->
                                 IF pg \in PageRange(h.p_vaddr, h.p_memsz) THEN p
                                 ELSE created[pg]]
              /\ copies' = Append(copies,
                                  [seg |-> p,
                                   dst |-> MemoryStart(aligned_memory, h.p_vaddr),
                                   src |-> h.p_offset,
                                   n |-> h.p_memsz])
              /\ p' = p + 1
              /\ lpc' = "seg"
              /\ UNCHANGED failed
    /\ UNCHANGED <<cmd, content, image, heap, nAlloc, handles, memory, stackHandle,
                   freeCalls, unmapCalls, unmapFailed, mine, entered, relRound>>

\* the for loop ends: return failed
SegLoopEnd ==
    /\ lpc = "seg"
    /\ p > Len(image)
    /\ lpc' = "allocated"
    /\ UNCHANGED <<cmd, content, image, pageTable, heap, nAlloc, handles, p,
                   failed, memory, stackHandle, copies, freeCalls, unmapCalls,
                   unmapFailed, mine, created, entered, relRound>>

-----------------------------------------------------------------------------
\* exec_command and execin_command after allocate_segments

\* the result of allocate_segments is not looked at
LoadOkAlways(f) == TRUE

\* if(!failed)
LoadOk(f) == ~f

\* the failure branch returns without calling release_segments
LoadFailedNoRelease ==
    /\ lpc = "allocated"
    /\ ~LoadOk(failed)
    /\ handles' = <<>>
    /\ lpc' = "done"
    /\ UNCHANGED <<cmd, content, image, pageTable, heap, nAlloc, p,
                   failed, memory, stackHandle, copies, freeCalls, unmapCalls,
                   unmapFailed, mine, created, entered, relRound>>

\* if(failed): the message is printed and release_segments is called
LoadFailed ==
    /\ lpc = "allocated"
    /\ ~LoadOk(failed)
    /\ lpc' = "release"
    /\ p' = 1
    /\ relRound' = relRound + 1
    /\ UNCHANGED <<cmd, content, image, pageTable, heap, nAlloc, handles,
                   failed, memory, stackHandle, copies, freeCalls, unmapCalls,
                   unmapFailed, mine, created, entered>>

\* allocate_user_stack(0x500000, PAGE_SIZE * 2, flags), every way it can return
AllocateUserStack ==
    /\ lpc = "allocated"
    /\ LoadOk(failed)
    /\ cmd = "exec"
    /\ LET size == PAGE_SIZE * 2
       IN IF AnyPresent(pageTable, STACK_ADDRESS, size)
          THEN /\ stackHandle' = 0
               /\ UNCHANGED <<pageTable, heap, nAlloc, memory, copies, mine, created>>
          ELSE \/ /\ memory' = 0
                  /\ stackHandle' = 0
                  /\ UNCHANGED <<pageTable, heap, nAlloc, copies, mine, created>>
               \/ \E delta \in {0, Misalign}, mapped \in BOOLEAN :
                    LET base == BlockBase(nAlloc, delta)
                        aligned_memory == AlignedMemory(base)
                    IN  /\ memory' = base
                        /\ heap' = Put(heap, base, TotalBytes(STACK_ADDRESS, size))
                        /\ nAlloc' = nAlloc + 1
                        /\ mine' = mine \cup {base}
                        /\ IF mapped
                           THEN /\ pageTable' = MapPages(pageTable, STACK_ADDRESS, size,
                                                         aligned_memory)
                                /\ created' =
                                       [pg \in DOMAIN created \cup PageRange(STACK_ADDRESS, size) |->
                                           IF pg \in PageRange(STACK_ADDRESS, size) THEN 0
                                           ELSE created[pg]]
                                /\ copies' = Append(copies,
                                       [seg |-> 0,
                                        dst |-> MemoryStart(aligned_memory, STACK_ADDRESS),
                                        src |-> -1,
                                        n |-> size])
                                /\ stackHandle' = base
                           ELSE /\ stackHandle' = 0
                                /\ UNCHANGED <<pageTable, created, copies>>
    /\ lpc' = "stack"
    /\ UNCHANGED <<cmd, content, image, handles, p, failed, freeCalls, unmapCalls,
                   unmapFailed, entered, relRound>>

\* the interrupt return comes back and the command goes on to release_segments
PrivilegedTransferFallsThrough ==
    /\ lpc = "stack"
    /\ stackHandle # 0
    /\ entered' = TRUE
    /\ lpc' = "release"
    /\ p' = 1
    /\ relRound' = 1
    /\ UNCHANGED <<cmd, content, image, pageTable, heap, nAlloc, handles,
                   failed, memory, stackHandle, copies, freeCalls, unmapCalls,
                   unmapFailed, mine, created>>

\* if(stack_physical): rsp0, the selectors and iretq; control never comes back
PrivilegedTransfer ==
    /\ lpc = "stack"
    /\ stackHandle # 0
    /\ entered' = TRUE
    /\ lpc' = "user"
    /\ UNCHANGED <<cmd, content, image, pageTable, heap, nAlloc, handles, p,
                   failed, memory, stackHandle, copies, freeCalls, unmapCalls,
                   unmapFailed, mine, created, relRound>>

\* else: "Unable to allocate a stack for the program", then release_segments
StackFailed ==
    /\ lpc = "stack"
    /\ stackHandle = 0
    /\ lpc' = "release"
    /\ p' = 1
    /\ relRound' = relRound + 1
    /\ UNCHANGED <<cmd, content, image, pageTable, heap, nAlloc, handles,
                   failed, memory, stackHandle, copies, freeCalls, unmapCalls,
                   unmapFailed, mine, created, entered>>

\* execin: main_function() is called
CallEntry ==
    /\ lpc = "allocated"
    /\ LoadOk(failed)
    /\ cmd = "execin"
    /\ entered' = TRUE
    /\ lpc' = "incall"
    /\ UNCHANGED <<cmd, content, image, pageTable, heap, nAlloc, handles, p,
                   failed, memory, stackHandle, copies, freeCalls, unmapCalls,
                   unmapFailed, mine, created, relRound>>

\* execin: the entry point returns, the code is printed, release_segments is called
EntryReturns ==
    /\ lpc = "incall"
    /\ lpc' = "release"
    /\ p' = 1
    /\ relRound' = relRound + 1
    /\ UNCHANGED <<cmd, content, image, pageTable, heap, nAlloc, handles,
                   failed, memory, stackHandle, copies, freeCalls, unmapCalls,
                   unmapFailed, mine, created, entered>>

-----------------------------------------------------------------------------
\* release_segments

\* the values 'a = allocated_segments[p]' can have: an entry never written is indeterminate
HandleValues(i) == IF handles[i] = Uninit THEN {0, WildPointer} ELSE {handles[i]}

\* a = allocated_segments[p] is null: next segment
RelSkip ==
    /\ lpc = "release"
    /\ p <= Len(handles)
    /\ 0 \in HandleValues(p)
    /\ p' = p + 1
    /\ UNCHANGED <<lpc, cmd, content, image, pageTable, heap, nAlloc, handles,
                   failed, memory, stackHandle, copies, freeCalls, unmapCalls,
                   unmapFailed, mine, created, entered, relRound>>

\* a is not null: k_free(a)
RelFree ==
    /\ lpc = "release"
    /\ p <= Len(handles)
    /\ \E a \in HandleValues(p) \ {0} :
        /\ memory' = a
        /\ heap' = Free(heap, a)
        /\ freeCalls' = Put(freeCalls, a, Count(freeCalls, a) + 1)
    /\ lpc' = "rel_unmap"
    /\ UNCHANGED <<cmd, content, image, pageTable, nAlloc, handles, p,
                   failed, stackHandle, copies, unmapCalls,
                   unmapFailed, mine, created, entered, relRound>>

\* a failed unmap_pages ends release_segments
RelUnmapStopsOnFailure ==
    /\ lpc = "rel_unmap"
    /\ unmapCalls' = Put(unmapCalls, p, Count(unmapCalls, p) + 1)
    /\ \/ /\ pageTable' = UnmapPages(pageTable, image[p].p_vaddr, image[p].p_memsz)
          /\ created' = UnmapPages(created, image[p].p_vaddr, image[p].p_memsz)
          /\ p' = p + 1
          /\ lpc' = "release"
          /\ UNCHANGED unmapFailed
       \/ /\ unmapFailed' = unmapFailed \cup {p}
          /\ lpc' = "released"
          /\ UNCHANGED <<pageTable, created, p>>
    /\ UNCHANGED <<cmd, content, image, heap, nAlloc, handles,
                   failed, memory, stackHandle, copies, freeCalls,
                   mine, entered, relRound>>

\* paging::unmap_pages(first_page, pages); a failure is only printed
RelUnmap ==
    /\ lpc = "rel_unmap"
    /\ unmapCalls' = Put(unmapCalls, p, Count(unmapCalls, p) + 1)
    /\ \/ /\ pageTable' = UnmapPages(pageTable, image[p].p_vaddr, image[p].p_memsz)
          /\ created' = UnmapPages(created, image[p].p_vaddr, image[p].p_memsz)
          /\ UNCHANGED unmapFailed
       \/ /\ unmapFailed' = unmapFailed \cup {p}
          /\ UNCHANGED <<pageTable, created>>
    /\ p' = p + 1
    /\ lpc' = "release"
    /\ UNCHANGED <<cmd, content, image, heap, nAlloc, handles,
                   failed, memory, stackHandle, copies, freeCalls,
                   mine, entered, relRound>>

\* the for loop of release_segments ends
RelLoopEnd ==
    /\ lpc = "release"
    /\ p > Len(handles)
    /\ lpc' = "released"
    /\ UNCHANGED <<cmd, content, image, pageTable, heap, nAlloc, handles, p,
                   failed, memory, stackHandle, copies, freeCalls, unmapCalls,
                   unmapFailed, mine, created, entered, relRound>>

\* the command returns: allocated_segments and content are destroyed
CommandReturns ==
    /\ lpc = "released"
    /\ handles' = <<>>
    /\ lpc' = "done"
    /\ UNCHANGED <<cmd, content, image, pageTable, heap, nAlloc, p,
                   failed, memory, stackHandle, copies, freeCalls, unmapCalls,
                   unmapFailed, mine, created, entered, relRound>>

\* release_segments is called once more on the same records
ReleaseAgain ==
    /\ lpc = "released"
    /\ relRound = 1
    /\ relRound' = 2
    /\ p' = 1
    /\ lpc' = "release"
    /\ UNCHANGED <<cmd, content, image, pageTable, heap, nAlloc, handles,
                   failed, memory, stackHandle, copies, freeCalls, unmapCalls,
                   unmapFailed, mine, created, entered>>

NextLoader ==
    \/ (ReadElfRejects /\ UNCHANGED nicVars)
    \/ (AllocateArray /\ UNCHANGED nicVars)
    \/ (SegBegin /\ UNCHANGED nicVars)
    \/ (SegMalloc /\ UNCHANGED nicVars)
    \/ (SegMap /\ UNCHANGED nicVars)
    \/ (SegLoopEnd /\ UNCHANGED nicVars)
    \/ (LoadFailed /\ UNCHANGED nicVars)
    \/ (AllocateUserStack /\ UNCHANGED nicVars)
    \/ (PrivilegedTransfer /\ UNCHANGED nicVars)
    \/ (StackFailed /\ UNCHANGED nicVars)
    \/ (CallEntry /\ UNCHANGED nicVars)
    \/ (EntryReturns /\ UNCHANGED nicVars)
    \/ (RelSkip /\ UNCHANGED nicVars)
    \/ (RelFree /\ UNCHANGED nicVars)
    \/ (RelUnmap /\ UNCHANGED nicVars)
    \/ (RelLoopEnd /\ UNCHANGED nicVars)
    \/ (CommandReturns /\ UNCHANGED nicVars)

InitCommand == NicReset /\ LoaderStart

SpecLoader == InitCommand /\ [][NextLoader]_vars

NextTwice ==
    \/ NextLoader
    \/ (ReleaseAgain /\ UNCHANGED nicVars)

SpecTwice == InitCommand /\ [][NextTwice]_vars

-----------------------------------------------------------------------------
\* Properties of the receive path

\* C1: a drain iteration calls the link-layer decoder if and only if none of
\* the bad-symbol, runt, too-long, CRC-error and bad-alignment bits is set in
\* the header it read and the length field is not zero; no other step of the
\* driver calls the decoder.
C1_DecodeIffValid ==
    [][LET st == lastIter'.header.lo
           len == lastIter'.header.hi
           clean == /\ (st \div 2) % 2 = 0
                    /\ (st \div 4) % 2 = 0
                    /\ (st \div 8) % 2 = 0
                    /\ (st \div 16) % 2 = 0
                    /\ (st \div 32) % 2 = 0
           drained == lastIter'.n = lastIter.n + 1
       IN  /\ (drained /\ clean /\ len # 0) => decoded' = decoded + 1
           /\ ~(drained /\ clean /\ len # 0) => decoded' = decoded
           /\ drained => (lastIter'.forwarded <=> (clean /\ len # 0))
           /\ drained => lastIter'.header = written[lastIter'.n].hdr]_vars

\* C1 witness: a frame with the CRC-error bit was drained and not forwarded,
\* after a valid frame that was forwarded.
C1_Witness ==
    /\ lastIter.n = 2
    /\ lastIter.header = Word(RX_CRC_ERR, 64)
    /\ ~lastIter.forwarded
    /\ decoded = 1

\* C2: for every frame treated as valid, the length handed to the decoder is
\* header.length - 4 and the first byte of the forwarded buffer is the ring
\* byte at offset + 4.
C2_ForwardedLengthAndByte ==
    (lastIter.n > 0 /\ lastIter.forwarded) =>
        /\ lastIter.fwdLen.hi = 0
        /\ lastIter.fwdLen.lo = lastIter.header.hi - 4
        /\ (lastIter.fwdLen.lo > 0 => lastIter.fwdFirst = lastIter.ringByte)

\* C3: the working cursor of the handler and the cursor stored in the
\* descriptor are multiples of 4 in every reachable state.
C3_CursorAligned ==
    /\ cur_rx % 4 = 0
    /\ desc.cur_rx % 4 = 0
    /\ lastIter.newCursor % 4 = 0

\* C3 witness: two frames of odd length 3 were drained and the cursor was
\* persisted.
C3_Witness ==
    /\ lastIter.n = 2
    /\ lastIter.header.hi = 3
    /\ lastIter.cursor = 8
    /\ hpc = "idle"
    /\ desc.cur_rx = 16

\* C4: every drain iteration, for a valid frame, an error frame or a frame of
\* length 0, moves the working cursor to the 4-byte boundary at or above
\* cursor + length + 4, length being the high 16 bits of the header located at
\* the cursor; a 64-byte frame drained from cursor 0 leaves the cursor at 68.
C4_AdvanceFormula ==
    [][lastIter'.n # lastIter.n =>
        LET len == written[lastIter'.n].hdr.hi
        IN  /\ hpc = "loop" /\ hpc' = "loop"
            /\ lastIter'.cursor = cur_rx
            /\ lastIter'.newCursor = cur_rx'
            /\ cur_rx' % 4 = 0
            /\ cur_rx' >= cur_rx + len + 4
            /\ cur_rx' < cur_rx + len + 8
            /\ (cur_rx = 0 /\ len = 64) => cur_rx' = 68]_vars

\* C4 witness: after a valid 64-byte frame left the cursor at 68, an error
\* frame of length 3 was drained and left it at 76.
C4_Witness ==
    /\ lastIter.n = 2
    /\ lastIter.cursor = 68
    /\ lastIter.header = Word(RX_RUNT + RX_BAD_ALIGN + RX_BAD_SYMBOL + RX_TOO_LONG, 3)
    /\ hpc = "loop"
    /\ cur_rx = 76

\* C5: every drain iteration locates the header at cursor mod 0x3000 and the
\* payload 4 bytes further, so that the n-th iteration reads the n-th frame
\* the device stored, also when the cursor has reached or passed the capacity.
C5_OffsetIsCursorModCapacity ==
    lastIter.n > 0 =>
        /\ lastIter.offset < Capacity
        /\ (lastIter.cursor - lastIter.offset) % Capacity = 0
        /\ lastIter.offset = written[lastIter.n].off
        /\ lastIter.header = written[lastIter.n].hdr
        /\ (lastIter.ringByte # -1 /\ lastIter.header.hi > 0) =>
               lastIter.ringByte = written[lastIter.n].byte

\* C5 witness: a frame was drained with the cursor at 0x3000, from offset 0.
C5_Witness ==
    /\ lastIter.n = 2
    /\ lastIter.cursor = Capacity
    /\ lastIter.offset = 0
    /\ lastIter.header.hi = 64

\* C6: from the end of init_driver on, the read-pointer register holds the
\* current read cursor minus 16.
C6_ReadPointerIsCursorMinus16 ==
    initPc = "done" => rxBufPtr = CurrentCursor - PtrBias

-----------------------------------------------------------------------------
\* Properties of the loader

\* C7: for an image of two loadable segments whose second segment has a target
\* page mapped beforehand, and whose first segment was materialized, the load
\* fails without any transfer of control, and once cleanup has run the block
\* of the first segment is freed, its pages are unmapped and no entry of the
\* handle array is non-empty.
C7_ConflictOnSecondSegmentCleansUp ==
    (/\ lpc \in {"released", "done"}
     /\ Len(image) = 2
     /\ image[1].p_type = PT_LOAD
     /\ image[2].p_type = PT_LOAD
     /\ PageRange(image[2].p_vaddr, image[2].p_memsz)
            \cap (DOMAIN pageTable \ DOMAIN created) # {}
     /\ Len(copies) = 1
     /\ copies[1].seg = 1)
    => /\ failed
       /\ ~entered
       /\ mine \cap DOMAIN heap = {}
       /\ DOMAIN created = {}
       /\ \A i \in DOMAIN handles : handles[i] = 0

\* C8: when a load attempt is aborted by a page conflict, an allocation
\* failure or a mapping failure, for a segment or for the stack, then by the
\* time the command has returned every block the attempt allocated is freed
\* and every page mapping it created is removed.
C8_AbortReleasesEverything ==
    (/\ lpc = "done"
     /\ content = "valid"
     /\ (failed \/ (cmd = "exec" /\ stackHandle = 0)))
    => /\ mine \cap DOMAIN heap = {}
       /\ DOMAIN created = {}

\* C9: at every point of a load attempt outside the span from recording a
\* handle to the return of map_pages, a segment with a non-empty handle has
\* its whole page range mapped by the loader and a segment with an empty
\* handle has no page mapped by the loader.
C9_HandleIffMapping ==
    (lpc # "seg_map") =>
        \A i \in DOMAIN handles :
            /\ (handles[i] # 0 /\ handles[i] # Uninit) =>
                   \A pg \in PageRange(image[i].p_vaddr, image[i].p_memsz) :
                       pg \in DOMAIN created /\ created[pg] = i
            /\ handles[i] = 0 =>
                   \A pg \in DOMAIN created : created[pg] # i

\* C10: when release_segments runs twice on the same records, no block the
\* load attempt allocated is freed twice and the page range of no materialized
\* segment is unmapped twice.
C10_CleanupIdempotent ==
    /\ \A a \in mine : Count(freeCalls, a) <= 1
    /\ \A i \in 1 .. Len(copies) : Count(unmapCalls, copies[i].seg) <= 1

\* C11: during cleanup no segment has its block already returned to the
\* allocator while pages of its range are still mapped onto that block.
C11_UnmapNotAfterFree ==
    (relRound >= 1) =>
        \A i \in DOMAIN handles :
            (handles[i] \in mine /\ handles[i] \notin DOMAIN heap) =>
                \A pg \in DOMAIN created : created[pg] # i

\* C12: when the file is empty or is not a valid ELF64 image, the only step
\* of exec and execin is the return after the error message: no block is
\* allocated, no page is mapped or unmapped, no handle array is built and
\* the entry point is not reached.
C12_RejectedImageTouchesNothing ==
    [][(content = "empty" \/ content = "invalid") =>
          /\ lpc = "start" /\ lpc' = "done"
          /\ handles' = <<>> /\ ~entered'
          /\ UNCHANGED <<pageTable, heap, nAlloc, mine, created, copies,
                         freeCalls, unmapCalls, stackHandle>>]_vars

C12_Witness ==
    /\ lpc = "done"
    /\ content = "invalid"
    /\ pageTable # <<>>
    /\ heap = <<>> /\ nAlloc = 0 /\ handles = <<>>

\* C13: the entry point of the image is reached (interrupt return in exec,
\* call in execin) only when allocate_segments reported no failure, every
\* PT_LOAD segment was mapped and copied, and, for exec, allocate_user_stack
\* returned a non-null block; while the image runs every one of its loadable
\* segments is mapped.
C13_EntryOnlyAfterFullLoad ==
    entered =>
        /\ ~failed
        /\ cmd = "exec" => stackHandle # 0
        /\ \A i \in 1 .. Len(image) :
               image[i].p_type = PT_LOAD =>
                   /\ \E k \in 1 .. Len(copies) : copies[k].seg = i
                   /\ lpc \in {"user", "incall"} =>
                          \A pg \in PageRange(image[i].p_vaddr, image[i].p_memsz) :
                              pg \in DOMAIN created /\ created[pg] = i

C13_Witness ==
    /\ entered
    /\ cmd = "exec"
    /\ lpc = "user"
    /\ stackHandle # 0
    /\ Len(image) = 2
    /\ \A i \in 1 .. 2 : image[i].p_type = PT_LOAD /\ handles[i] \in mine

\* C14: the interrupt return of exec_command is taken with no cleanup begun
\* (release_segments has not been called, nothing was freed or unmapped), and
\* after it no step of the loader changes anything: release_segments never
\* runs after the transfer.
C14_TransferIsTerminal ==
    [][/\ (lpc # "user" /\ lpc' = "user") =>
              /\ lpc = "stack" /\ entered'
              /\ relRound = 0 /\ freeCalls = <<>> /\ unmapCalls = <<>>
       /\ (cmd = "exec" /\ entered) => UNCHANGED loaderVars]_vars

C14_Witness ==
    /\ lpc = "user"
    /\ cmd = "exec"
    /\ entered
    /\ relRound = 0
    /\ stackHandle \in DOMAIN heap
    /\ \E i \in DOMAIN handles : handles[i] \in DOMAIN heap

\* C15: in execin, for a validated image, release_segments is called exactly
\* once before the command returns: not before the entry point has returned
\* when it was called, and also when allocate_segments failed and the entry
\* point was never called; the call runs to the end of the handle array.
C15_ExecinReleasesOnce ==
    (cmd = "execin" /\ content = "valid") =>
        /\ relRound <= 1
        /\ relRound = 1 => (lpc # "incall" /\ (entered <=> ~failed))
        /\ lpc = "done" => (relRound = 1 /\ p = Len(image) + 1)
        /\ lpc \in {"start", "seg", "seg_malloc", "seg_map", "allocated", "incall"}
               => relRound = 0

C15_Witness ==
    /\ cmd = "execin"
    /\ lpc = "done"
    /\ entered
    /\ relRound = 1
    /\ Len(image) = 2
    /\ freeCalls # <<>>

\* C16: for an image of one PT_LOAD segment with p_memsz = p_filesz, when
\* execin calls the entry point, every address p_vaddr + k, k < p_filesz, is
\* mapped onto the byte of the segment's own block that std::copy_n filled
\* from the image byte at p_offset + k, whether p_vaddr is page-aligned or not.
C16_SegmentBytesAtVirtualAddress ==
    (/\ cmd = "execin" /\ lpc = "incall"
     /\ Len(image) = 1
     /\ image[1].p_type = PT_LOAD
     /\ image[1].p_memsz = image[1].p_filesz) =>
        LET h == image[1]
            c == copies[1]
        IN  /\ Len(copies) = 1
            /\ c.seg = 1
            /\ c.src = h.p_offset
            /\ c.n = h.p_filesz
            /\ handles[1] \in DOMAIN heap
            /\ c.dst >= handles[1]
            /\ c.dst + c.n <= handles[1] + heap[handles[1]]
            /\ \A k \in 0 .. (h.p_filesz - 1) :
                   LET va == h.p_vaddr + k
                       pg == va \div PAGE_SIZE
                   IN  /\ pg \in DOMAIN pageTable
                       /\ pageTable[pg] + (va % PAGE_SIZE) = c.dst + k

C16_Witness ==
    /\ cmd = "execin" /\ lpc = "incall"
    /\ Len(image) = 1
    /\ image[1].p_type = PT_LOAD
    /\ image[1].p_memsz = image[1].p_filesz
    /\ ~PageAligned(image[1].p_vaddr)
    /\ ~PageAligned(handles[1])
    /\ pageTable[image[1].p_vaddr \div PAGE_SIZE] + LeftPadding(image[1].p_vaddr)
           = copies[1].dst

\* C17: when release_segments has returned it has gone through every index
\* of the handle array, and every segment with a recorded block had k_free
\* and unmap_pages called for it, also when unmap_pages failed for an
\* earlier segment.
C17_ReleaseVisitsEverySegment ==
    (lpc = "released") =>
        /\ Len(handles) = Len(image)
        /\ p = Len(image) + 1
        /\ \A i \in 1 .. Len(image) :
               handles[i] \in mine =>
                   /\ Count(freeCalls, handles[i]) >= 1
                   /\ handles[i] \notin DOMAIN heap
                   /\ Count(unmapCalls, i) >= 1
                   /\ i \notin unmapFailed =>
                          \A pg \in DOMAIN created : created[pg] # i

C17_Witness ==
    /\ lpc = "released"
    /\ Len(image) = 2
    /\ 1 \in unmapFailed
    /\ handles[2] \in mine
    /\ Count(freeCalls, handles[2]) = 1
    /\ Count(unmapCalls, 2) = 1
    /\ 2 \notin unmapFailed

\* C18: when the status read by packet_handler has the receive-OK bit clear,
\* the handler writes that status back to ISR and returns: the cursor of the
\* descriptor, the read-pointer register and the ring are unchanged, no frame
\* is consumed and the decoder is not called.
C18_NoReceiveOkOnlyAcknowledges ==
    [][(hpc = "ack" /\ hpc' # "ack" /\ BitAnd(status, RX_OK) = 0) =>
          /\ hpc' = "idle"
          /\ isr' = isr - BitAnd(isr, status)
          /\ UNCHANGED <<desc, rxBufPtr, ring, ringFill, devRd, pending,
                         decoded, lastIter>>]_vars

C18_Witness ==
    /\ hpc = "idle"
    /\ status = TX_OK
    /\ BitAnd(isr, TX_OK) = 0
    /\ desc.cur_rx > 0
    /\ ring # <<>>
    /\ decoded = 1

\* C19: once the interrupt handler is registered the descriptor is changed
\* only by the handler's final store of its cursor, so init_driver writes the
\* descriptor only before the registration; and every pass of the handler
\* that drains starts from the cursor stored by the previous pass, or from 0
\* when no frame was consumed yet.
C19_DescriptorHasOneWriter ==
    [][/\ (desc' # desc /\ (irqHandler \/ irqHandler')) =>
              /\ hpc = "loop" /\ hpc' = "idle"
              /\ desc' = [desc EXCEPT !.cur_rx = cur_rx]
              /\ initPc' = initPc
       /\ (hpc = "ack" /\ hpc' = "loop") =>
              /\ cur_rx' = desc.cur_rx
              /\ desc' = desc
              /\ desc.cur_rx = (IF lastIter.n = 0 THEN 0 ELSE lastIter.newCursor)]_vars

C19_Witness ==
    /\ hpc = "loop"
    /\ lastIter.n = 1
    /\ pending = 1
    /\ desc.cur_rx > 0
    /\ desc.cur_rx = lastIter.newCursor
    /\ cur_rx = desc.cur_rx

\* C20 as stated: when init_driver has completed, the cursor of the
\* descriptor is 0 and the ring is zero-filled, and both were so when the
\* receiver was enabled.
C20_CursorZeroAtCompletion ==
    /\ rxEnabled => ringFill = "zero"
    /\ initPc = "done" => (desc.cur_rx = 0 /\ ringFill = "zero")

\* C20: the ring of 0x3000 bytes is zero-filled and the cursor of the
\* descriptor is reset to 0 before the receiver is enabled; when init_driver
\* completes the cursor is still 0 as long as the handler has consumed no
\* frame, and the ring is still all zero as long as no frame has arrived.
C20_ZeroedBeforeReceiverEnabled ==
    /\ rxEnabled =>
           /\ initPc \in {"mac", "done"}
           /\ ringMapped /\ ringFill = "zero"
           /\ desc.buffer_rx = RingVirt /\ desc.phys_buffer_rx = RingPhys
    /\ (rxEnabled /\ lastIter.n = 0) => desc.cur_rx = 0
    /\ (rxEnabled /\ nFrames = 0) => ring = <<>>
    /\ (initPc = "done") => rxEnabled

C20_Witness ==
    /\ initPc = "done"
    /\ rxEnabled
    /\ nFrames = 0
    /\ desc.cur_rx = 0
    /\ ringFill = "zero" /\ ring = <<>>

\* C21: every page the loader has mapped for a segment or for the stack is
\* backed by physical bytes that lie wholly inside the block k_malloc
\* returned for that segment or for the stack.
C21_MappedRangeInsideBlock ==
    (relRound = 0) =>
        \A pg \in DOMAIN created :
            LET i == created[pg]
                b == IF i = 0 THEN stackHandle ELSE handles[i]
            IN  (b \in DOMAIN heap) =>
                    /\ pageTable[pg] >= b
                    /\ pageTable[pg] + PAGE_SIZE <= b + heap[b]

\* C22: in every drain iteration the 4-byte header read lies inside the
\* 0x3000-byte ring, and for a frame handed to the decoder the bytes copied,
\* length - 4 of them from offset + 4 on, lie inside the ring too.
C22_ReadsStayInsideRing ==
    (lastIter.n > 0) =>
        /\ lastIter.offset + HeaderSize <= Capacity
        /\ lastIter.forwarded =>
               /\ lastIter.fwdLen.hi = 0
               /\ lastIter.offset + HeaderSize + lastIter.fwdLen.lo <= Capacity

\* C23: from the return of allocate_segments on, every entry of the handle
\* array is null or a block this load attempt allocated, and release_segments
\* calls k_free only on blocks this load attempt allocated.
C23_HandlesAreNullOrOwned ==
    /\ lpc \in {"allocated", "stack", "user", "incall", "release", "rel_unmap", "released"} =>
           \A i \in DOMAIN handles : handles[i] = 0 \/ handles[i] \in mine
    /\ DOMAIN freeCalls \subseteq mine

\* C24: for every frame handed to the decoder, the payload length
\* packet_length - 4 is smaller than the length field of the header and at
\* most 65531: the 32-bit subtraction does not wrap, also for the lengths
\* 1, 2 and 3.
C24_PayloadLengthDoesNotWrap ==
    (lastIter.n > 0 /\ lastIter.forwarded) =>
        /\ lastIter.fwdLen.hi = 0
        /\ lastIter.fwdLen.lo < lastIter.header.hi
        /\ lastIter.fwdLen.lo <= 65531

\* C25: the copy made for a segment takes exactly p_filesz bytes from p_offset
\* of the image to aligned_memory + left_padding: nothing is written from
\* p_filesz up to p_memsz and nothing is read past p_offset + p_filesz.
C25_CopiesExactlyFileSize ==
    \A k \in 1 .. Len(copies) :
        LET c == copies[k]
        IN  (c.seg >= 1) =>
                /\ c.src = image[c.seg].p_offset
                /\ c.n = image[c.seg].p_filesz
                /\ c.dst % PAGE_SIZE = LeftPadding(image[c.seg].p_vaddr)

\* C26: after every write of the read-pointer register, the 16-bit value in
\* the register plus 16, taken modulo 0x3000, is the driver's cursor modulo
\* 0x3000.
C26_ReadPointerMatchesRingPosition ==
    (lastIter.n > 0) =>
        /\ rxBufPtr = lastIter.ptr
        /\ (rxBufPtr + PtrBias) % Capacity = lastIter.newCursor % Capacity

\* C27: every drain iteration, in whichever pass of the handler it runs,
\* starts at the cursor where the previous iteration ended (0 for the first)
\* and moves the cursor forward, and the n-th iteration handles the n-th
\* frame the device wrote: no frame is handled twice, also when a frame
\* arrives and raises receive-OK again while a drain is in progress.
C27_FrameHandledAtMostOnce ==
    [][(lastIter' # lastIter) =>
          /\ lastIter'.n = lastIter.n + 1
          /\ lastIter'.n <= nFrames
          /\ lastIter'.cursor = (IF lastIter.n = 0 THEN 0 ELSE lastIter.newCursor)
          /\ lastIter'.newCursor > lastIter'.cursor
          /\ lastIter'.offset = written[lastIter'.n].off
          /\ lastIter'.header = written[lastIter'.n].hdr
          /\ pending' = nFrames - lastIter'.n]_vars

C27_Witness ==
    /\ hpc = "loop"
    /\ lastIter.n = 2
    /\ pending = 0
    /\ BitAnd(isr, RX_OK) # 0
    /\ lastIter.header = written[2].hdr
    /\ desc.cur_rx = 0

\* C28: when mapping the ring's virtual range fails, init_driver stops: the
\* addresses are not stored in the descriptor, the ring is not zero-filled,
\* the handler is not registered, no interrupt is unmasked and the receiver
\* is not enabled.
C28_InitStopsOnMapFailure ==
    (initPc \notin {"start", "rxbuf", "map"} /\ ~ringMapped) =>
        /\ desc = NoDesc
        /\ ringFill # "zero"
        /\ ~irqHandler
        /\ imr = 0
        /\ ~rxEnabled

\* C29: a drain iteration runs only when the ring-empty bit of the command
\* register is clear, the handler leaves the loop at its first step taken
\* with the bit set and stores its cursor in the descriptor, and every pass of
\* the handler that has started returns.
C29_HandlerTerminates ==
    /\ [][/\ (lastIter' # lastIter) =>
                 (hpc = "loop" /\ BitAnd(CmdReg, CMD_NOT_EMPTY) = 0)
          /\ (hpc = "loop" /\ BitAnd(CmdReg, CMD_NOT_EMPTY) # 0
                /\ <<hpc, cur_rx, desc, lastIter>>' # <<hpc, cur_rx, desc, lastIter>>) =>
                 (hpc' = "idle" /\ desc'.cur_rx = cur_rx /\ lastIter' = lastIter)
          /\ (hpc = "loop" /\ hpc' = "idle") =>
                 (BitAnd(CmdReg, CMD_NOT_EMPTY) # 0 /\ desc'.cur_rx = cur_rx)]_vars
    /\ (hpc # "idle") ~> (hpc = "idle")

C29_Witness ==
    /\ hpc = "idle"
    /\ lastIter.n = 2
    /\ desc.cur_rx = lastIter.newCursor
    /\ pending = 0
    /\ BitAnd(status, RX_OK) # 0

\* C30: every frame the device has written into the ring is eventually
\* handled by a drain iteration: once the n-th frame is in the ring, the
\* n-th iteration eventually runs and reads that frame's header, also when
\* the frame arrives after the handler's last test of the ring-empty bit.
C30_EveryFrameEventuallyHandled ==
    /\ \A n \in 1 .. MaxFrames : (nFrames >= n) ~> (lastIter.n >= n)
    /\ [](lastIter.n > 0 => lastIter.header = written[lastIter.n].hdr)
    /\ (pending > 0) ~> (pending = 0 /\ hpc = "idle")

C30_Witness ==
    /\ hpc = "ack"
    /\ desc.cur_rx > 0
    /\ lastIter.n = 1
    /\ nFrames = 2
    /\ pending = 1
    /\ BitAnd(status, RX_OK) # 0

====
